---- MODULE Spec2Model ----
(***************************************************************************)
(* A model of CSharpCodeSearcher (src/code_search_tool.py): the pruned     *)
(* os.walk traversal, the file admission test, scan_codebase, search_code  *)
(* and analyze_project_structure.  Strings are sequences of one-character  *)
(* strings, so that lower(), suffix, substring tests and the regular       *)
(* expressions of the source are computed character by character.          *)
(***************************************************************************)
EXTENDS Naturals, Integers, Sequences, FiniteSets, TLC

(***************************************************************************)
(* Characters and strings                                                  *)
(***************************************************************************)
UpperChars == <<"A","B","C","D","E","F","G","H","I","J","K","L","M",
                "N","O","P","Q","R","S","T","U","V","W","X","Y","Z">>
LowerChars == <<"a","b","c","d","e","f","g","h","i","j","k","l","m",
                "n","o","p","q","r","s","t","u","v","w","x","y","z">>
DigitChars == <<"0","1","2","3","4","5","6","7","8","9">>

UpperSet == {UpperChars[i] : i \in 1..Len(UpperChars)}
LowerSet == {LowerChars[i] : i \in 1..Len(LowerChars)}
DigitSet == {DigitChars[i] : i \in 1..Len(DigitChars)}

\* str.lower() on one character
LowerChar(c) ==
    IF c \in UpperSet
    THEN LowerChars[CHOOSE i \in 1..Len(UpperChars) : UpperChars[i] = c]
    ELSE c

\* str.lower()
lower(s) == [i \in 1..Len(s) |-> LowerChar(s[i])]

\* the class \w of the re module
IsWordChar(c) == c \in UpperSet \cup LowerSet \cup DigitSet \cup {"_"}

\* the class \s of the re module, and the characters str.strip() removes
IsSpaceChar(c) == c \in {" ", "\t", "\n"}

\* needle in hay
Contains(hay, needle) ==
    \E i \in 0..Len(hay) :
        /\ i + Len(needle) <= Len(hay)
        /\ SubSeq(hay, i + 1, i + Len(needle)) = needle

\* s.startswith(p)
StartsWith(s, p) == Len(p) <= Len(s) /\ SubSeq(s, 1, Len(p)) = p

SetMax(S) == CHOOSE x \in S : \A y \in S : y <= x
SetMin(S) == CHOOSE x \in S : \A y \in S : x <= y
IMin(a, b) == IF a <= b THEN a ELSE b
IMax(a, b) == IF a >= b THEN a ELSE b

\* str.strip()
strip(s) ==
    LET keep == {i \in 1..Len(s) : ~IsSpaceChar(s[i])}
    IN  IF keep = {} THEN <<>> ELSE SubSeq(s, SetMin(keep), SetMax(keep))

\* str.split('\n'): the pieces between the newlines, empty pieces kept
split_lines(s) ==
    LET nl    == {i \in 1..Len(s) : s[i] = "\n"}
        cuts  == nl \cup {0, Len(s) + 1}
        \* the k-th cut, counting from the front
        nth(k) == CHOOSE c \in cuts : Cardinality({d \in cuts : d < c}) = k - 1
    IN  [k \in 1..(Cardinality(nl) + 1) |-> SubSeq(s, nth(k) + 1, nth(k + 1) - 1)]

\* PurePath.suffix: the last dot of the name and what follows it, unless the
\* dot is the first or the last character
suffix(name) ==
    LET dots == {i \in 1..Len(name) : name[i] = "."}
    IN  IF dots = {} THEN <<>>
        ELSE LET i == SetMax(dots)
             IN  IF 1 < i /\ i < Len(name) THEN SubSeq(name, i, Len(name)) ELSE <<>>

(***************************************************************************)
(* Regular expressions: a pattern is a sequence of elements, matched with  *)
(* the priorities of a backtracking engine (a repetition takes the longest *)
(* run that lets the rest match, an alternation its first such branch).    *)
(***************************************************************************)
Lit(s)        == [t |-> "lit", s |-> s,    alts |-> <<>>, cls |-> "",  min |-> 0]
WordB         == [t |-> "b",   s |-> <<>>, alts |-> <<>>, cls |-> "",  min |-> 0]
Alt(alts)     == [t |-> "alt", s |-> <<>>, alts |-> alts, cls |-> "",  min |-> 0]
Rep(cls, min) == [t |-> "rep", s |-> <<>>, alts |-> <<>>, cls |-> cls, min |-> min]

NoMatch == [ok |-> FALSE, cap |-> <<>>]

InClass(cls, c) ==
    CASE cls = "s"    -> IsSpaceChar(c)
      [] cls = "w"    -> IsWordChar(c)
      [] cls = "wdot" -> IsWordChar(c) \/ c = "."
      [] OTHER        -> c # "\n"

\* the word or words of a literal at position pos of line
LitAt(s, line, pos, ic) ==
    /\ pos + Len(s) - 1 <= Len(line)
    /\ \A i \in 1..Len(s) :
          IF ic THEN LowerChar(line[pos + i - 1]) = LowerChar(s[i])
                ELSE line[pos + i - 1] = s[i]

\* \b before position pos
Boundary(line, pos) ==
    LET before == pos > 1 /\ IsWordChar(line[pos - 1])
        after  == pos <= Len(line) /\ IsWordChar(line[pos])
    IN  before # after

\* the length of the longest run of characters of the class from pos on
RunLen(cls, line, pos) ==
    LET stop == {i \in pos..Len(line) : ~InClass(cls, line[i])}
    IN  IF stop = {} THEN Len(line) + 1 - pos ELSE SetMin(stop) - pos

RECURSIVE re_from(_, _, _, _, _)
re_from(pat, k, line, pos, ic) ==
    IF k > Len(pat) THEN [ok |-> TRUE, cap |-> <<>>]
    ELSE LET e == pat[k] IN
      CASE e.t = "lit" ->
             IF LitAt(e.s, line, pos, ic)
             THEN re_from(pat, k + 1, line, pos + Len(e.s), ic)
             ELSE NoMatch
        [] e.t = "b" ->
             IF Boundary(line, pos)
             THEN re_from(pat, k + 1, line, pos, ic)
             ELSE NoMatch
        [] e.t = "alt" ->
             LET good == {a \in 1..Len(e.alts) :
                            /\ LitAt(e.alts[a], line, pos, ic)
                            /\ re_from(pat, k + 1, line, pos + Len(e.alts[a]), ic).ok}
             IN  IF good = {} THEN NoMatch
                 ELSE re_from(pat, k + 1, line, pos + Len(e.alts[SetMin(good)]), ic)
        [] OTHER ->
             LET run  == RunLen(e.cls, line, pos)
                 good == {n \in e.min..run : re_from(pat, k + 1, line, pos + n, ic).ok}
             IN  IF good = {} THEN NoMatch
                 ELSE LET n == SetMax(good)
                          r == re_from(pat, k + 1, line, pos + n, ic)
                      IN  [ok  |-> TRUE,
                           cap |-> IF e.cls \in {"w", "wdot"}
                                   THEN SubSeq(line, pos, pos + n - 1)
                                   ELSE r.cap]

\* re.search(pattern, line, flags) is not None
re_search(pat, line, ic) ==
    \E pos \in 1..(Len(line) + 1) : re_from(pat, 1, line, pos, ic).ok

\* re.match(pattern, line): anchored at the start; cap is the \w group
re_match(pat, line) == re_from(pat, 1, line, 1, FALSE)

(***************************************************************************)
(* Configuration (CSharpCodeSearcher.__init__)                             *)
(***************************************************************************)
\* max_file_size_mb: the default of __init__ and MAX_FILE_SIZE_MB
max_file_size_mb == 10
max_file_size_bytes == max_file_size_mb * 1024 * 1024

\* the configurations a searcher is built with: the defaults of __init__,
\* and a custom one whose entries are upper-cased
ConfigChoices == <<
    [skip_folders    |-> <<<<"b","i","n">>,
                          <<"o","b","j">>,
                          <<".","v","s">>,
                          <<".","g","i","t">>,
                          <<".","s","v","n">>,
                          <<"p","a","c","k","a","g","e","s">>,
                          <<"n","o","d","e","_","m","o","d","u","l","e","s">>,
                          <<"D","e","b","u","g">>,
                          <<"R","e","l","e","a","s","e">>,
                          <<".","v","s","c","o","d","e">>>>,
     file_extensions |-> <<<<".","c","s">>,
                          <<".","c","s","x">>,
                          <<".","c","s","h","t","m","l">>,
                          <<".","r","a","z","o","r">>,
                          <<".","x","a","m","l">>,
                          <<".","c","o","n","f","i","g">>,
                          <<".","j","s","o","n">>,
                          <<".","x","m","l">>,
                          <<".","y","m","l">>,
                          <<".","y","a","m","l">>,
                          <<".","s","q","l">>,
                          <<".","m","d">>,
                          <<".","t","x","t">>,
                          <<".","s","l","n">>,
                          <<".","c","s","p","r","o","j">>>>],
    [skip_folders    |-> <<<<"O","B","J">>>>,
     file_extensions |-> <<<<".","C","S">>>>] >>

(***************************************************************************)
(* The filesystem under code_folder_path.  Directory 1 is the root; the    *)
(* walk lists a directory's files and subdirectories in the order given.   *)
(* A file's size, whether stat() and open() succeed on it, and its text    *)
(* are independent attributes of the pool entry.                           *)
(***************************************************************************)
Root == 1
SubDirs  == << <<2, 3>>, <<4>>, <<>>, <<>> >>
ParentOf == << 1, 1, 1, 2 >>
SlotsOf  == << <<1>>, <<2>>, <<4, 5>>, <<3>> >>
Dirs  == 1..Len(SubDirs)
Slots == 1..5

DirNamePool == <<<<"s","r","c">>,
                 <<"B","i","n">>,
                 <<"c","a","b","i","n","e","t">>,
                 <<"M","o","d","e","l","s">>,
                 <<"m","y","o","b","j","f","i","l","e","s">>,
                 <<"l","i","b">>>>

\* the names each directory below the root may have (indices of DirNamePool)
DirNameChoices == << {}, {1, 2, 3}, {6}, {4, 5} >>

\* the decimal digits of a natural number
RECURSIVE DigitsOf(_)
DigitsOf(n) ==
    IF n < 10 THEN <<DigitChars[n + 1]>>
    ELSE DigitsOf(n \div 10) \o <<DigitChars[(n % 10) + 1]>>

\* the text of a file declaring n methods: line k is `public m<k>()`
ManyMethodLines == 34
MethodDecl(k) == <<"p","u","b","l","i","c"," ","m">> \o DigitsOf(k) \o <<"(",")">>
RECURSIVE MethodDecls(_)
MethodDecls(n) ==
    IF n = 0 THEN <<>> ELSE MethodDecls(n - 1) \o MethodDecl(n) \o <<"\n">>

FilePool == <<
    [name    |-> <<"F","o","o",".","c","s">>,
     size    |-> 100, stat_ok |-> TRUE, read_ok |-> TRUE,
     content |-> <<"n","a","m","e","s","p","a","c","e"," ","A","p","p",".","M","o","d","e","l","s","\n","p","u","b","l","i","c"," ","c","l","a","s","s"," ","F","o","o","\n">>],
    [name    |-> <<"G","e","n","e","r","a","t","e","d",".","c","s">>,
     size    |-> 100, stat_ok |-> TRUE, read_ok |-> TRUE,
     content |-> <<"c","l","a","s","s"," ","B","a","r">>],
    [name    |-> <<"I","U","s","e","r","R","e","p","o","s","i","t","o","r","y",".","c","s">>,
     size    |-> 100, stat_ok |-> TRUE, read_ok |-> TRUE,
     content |-> <<"p","u","b","l","i","c"," ","i","n","t","e","r","f","a","c","e"," ","I","U","s","e","r","R","e","p","o","s","i","t","o","r","y">>],
    [name    |-> <<"T","h","i","n","g",".","c","s">>,
     size    |-> 100, stat_ok |-> TRUE, read_ok |-> TRUE,
     content |-> <<"v","a","r"," ","m","y","R","e","p","o","s","i","t","o","r","y"," ","="," ","n","e","w"," ","T","h","i","n","g","(",")",";">>],
    [name    |-> <<"R","e","p","o","s","i","t","o","r","y",".","c","s">>,
     size    |-> 100, stat_ok |-> TRUE, read_ok |-> TRUE,
     content |-> <<"p","u","b","l","i","c"," ","c","l","a","s","s"," ","R","e","p","o","s","i","t","o","r","y","\n"," "," ","/","/"," ","a"," ","r","e","p","o","s","i","t","o","r","y","\n"," "," ","p","u","b","l","i","c"," ","R","e","p","o","s","i","t","o","r","y","(",")"," ","{"," ","}","\n">>],
    [name    |-> <<"B","i","g",".","C","S">>,
     size    |-> max_file_size_bytes + 1, stat_ok |-> TRUE, read_ok |-> TRUE,
     content |-> <<"c","l","a","s","s"," ","B","i","g">>],
    [name    |-> <<"E","d","g","e",".","c","s">>,
     size    |-> max_file_size_bytes, stat_ok |-> TRUE, read_ok |-> TRUE,
     content |-> <<"i","n","t","e","r","f","a","c","e"," ","R","e","p","o","s","i","t","o","r","y">>],
    [name    |-> <<"L","o","c","k","e","d","R","e","p","o","s","i","t","o","r","y",".","c","s">>,
     size    |-> 100, stat_ok |-> TRUE, read_ok |-> FALSE,
     content |-> <<"c","l","a","s","s"," ","R","e","p","o","s","i","t","o","r","y">>],
    [name    |-> <<"N","o","S","t","a","t",".","c","s">>,
     size    |-> 100, stat_ok |-> FALSE, read_ok |-> FALSE,
     content |-> <<"c","l","a","s","s"," ","R","e","p","o","s","i","t","o","r","y">>],
    [name    |-> <<"R","e","p","o","s","i","t","o","r","y",".","d","l","l">>,
     size    |-> 100, stat_ok |-> TRUE, read_ok |-> TRUE,
     content |-> <<"c","l","a","s","s"," ","R","e","p","o","s","i","t","o","r","y">>],
    [name    |-> <<"A","p","p",".","c","s","p","r","o","j">>,
     size    |-> 100, stat_ok |-> TRUE, read_ok |-> TRUE,
     content |-> <<"<","P","r","o","j","e","c","t","/",">">>],
    [name    |-> <<"M","a","n","y",".","c","s">>,
     size    |-> 100, stat_ok |-> TRUE, read_ok |-> TRUE,
     content |-> MethodDecls(ManyMethodLines)],
    [name    |-> <<"U","t","i","l",".","C","S">>,
     size    |-> 100, stat_ok |-> TRUE, read_ok |-> TRUE,
     content |-> <<"p","u","b","l","i","c"," ","c","l","a","s","s"," ","U","t","i","l">>] >>

\* the trees explored: for each, the file (an index of FilePool) in slots 1..5
SlotFillings == {
    <<1, 2, 5, 4, 5>>,     \* Foo | Generated | Repository | Thing, Repository
    <<8, 3, 5, 4, 11>>,    \* Locked | IUserRepository | Repository | Thing, App.csproj
    <<1, 3, 6, 7, 10>>,    \* Foo | IUserRepository | Big | Edge, Repository.dll
    <<5, 3, 6, 9, 5>>,     \* Repository | IUserRepository | Big | NoStat, Repository
    <<4, 8, 7, 8, 3>>,     \* Thing | Locked | Edge | Locked, IUserRepository
    <<7, 2, 9, 10, 4>>,    \* Edge | Generated | NoStat | Repository.dll, Thing
    <<13, 11, 5, 4, 13>> } \* Util.CS | App.csproj | Repository | Thing, Util.CS

\* trees with more method declarations than the analysis keeps
ManyFillings == {
    <<12, 12, 1, 8, 12>>,   \* Many | Many | Foo | Locked, Many
    <<12, 12, 12, 12, 5>>,  \* Many | Many | Many | Many, Repository
    <<5, 12, 5, 4, 5>> }    \* Repository | Many | Repository | Thing, Repository

SLASH == "/"

(***************************************************************************)
(* State                                                                   *)
(***************************************************************************)
VARIABLES
    fs,            \* the filesystem: root_exists, dname (directory names), slot (files)
    cfg,           \* the searcher's configuration: an index of ConfigChoices
    pc,            \* idle | walk | files | after_files | done
    op,            \* the operation running: scan | search | analyze | none
    args,          \* the arguments of search_code
    walk,          \* os.walk: the directories still to be yielded, next first
    cur,           \* root_path: the directory being processed
    todo,          \* the files of cur the inner loop has not reached yet
    results,       \* search_code: results
    file_summary,  \* scan_codebase: file_summary
    total_files,   \* scan_codebase: total_files
    analysis,      \* analyze_project_structure: analysis
    reads,         \* the slots of the files opened so far by the running operation
    ret,           \* what the operation returned or raised
    kwargs,        \* execute_code_search: its keyword arguments; NoKwargs in a direct call
    payload,       \* execute_code_search: the JSON text returned
    first          \* the arguments and the result of the search a caller repeats

vars == <<fs, cfg, pc, op, args, walk, cur, todo, results, file_summary,
          total_files, analysis, reads, ret, kwargs, payload, first>>

skip_folders    == ConfigChoices[cfg].skip_folders
file_extensions == ConfigChoices[cfg].file_extensions

DirName(d) == DirNamePool[fs.dname[d]]
FileAt(sl) == FilePool[fs.slot[sl]]

\* the directory a slot lies in
DirOfSlot(sl) == CHOOSE d \in Dirs : \E i \in 1..Len(SlotsOf[d]) : SlotsOf[d][i] = sl

\* str(path.relative_to(self.code_folder_path)) of a directory, with the
\* separator that follows it
RECURSIVE DirPrefix(_)
DirPrefix(d) ==
    IF d = Root THEN <<>> ELSE DirPrefix(ParentOf[d]) \o DirName(d) \o <<SLASH>>

relative_to(d, name) == DirPrefix(d) \o name

(***************************************************************************)
(* PathFilter                                                              *)
(***************************************************************************)
\* a skip test that wants the whole name to equal the fragment
_should_skip_folder_exact(name) ==
    LET folder_name == lower(name)
    IN  \E i \in 1..Len(skip_folders) : folder_name = lower(skip_folders[i])

_should_skip_folder(name) ==
    LET folder_name == lower(name)
    IN  \E i \in 1..Len(skip_folders) : Contains(folder_name, lower(skip_folders[i]))

\* an admission test that forgets the size ceiling
_should_include_file_any_size(f) ==
    IF ~(\E i \in 1..Len(file_extensions) :
            lower(suffix(f.name)) = lower(file_extensions[i]))
    THEN FALSE
    ELSE f.stat_ok

_should_include_file(f) ==
    IF ~(\E i \in 1..Len(file_extensions) :
            lower(suffix(f.name)) = lower(file_extensions[i]))
    THEN FALSE
    ELSE IF ~f.stat_ok THEN FALSE                       \* OSError
    ELSE IF f.size > max_file_size_bytes THEN FALSE
    ELSE TRUE

\* dirs[:] = [d for d in dirs if not self._should_skip_folder(root_path / d)]
PruneDirs(dirs) == SelectSeq(dirs, LAMBDA d : ~_should_skip_folder(DirName(d)))

(***************************************************************************)
(* PatternCompiler and LineSearcher                                        *)
(***************************************************************************)
KW_class     == <<"c","l","a","s","s">>
KW_interface == <<"i","n","t","e","r","f","a","c","e">>
KW_struct    == <<"s","t","r","u","c","t">>
KW_enum      == <<"e","n","u","m">>
AccessWords  == <<<<"p","u","b","l","i","c">>,
                  <<"p","r","i","v","a","t","e">>,
                  <<"p","r","o","t","e","c","t","e","d">>,
                  <<"i","n","t","e","r","n","a","l">>>>
ModifierWords == AccessWords \o <<<<"s","t","a","t","i","c">>>>
TypeWords    == <<<<"v","a","r">>, <<"i","n","t">>,
                  <<"s","t","r","i","n","g">>, <<"b","o","o","l">>,
                  <<"d","o","u","b","l","e">>, <<"f","l","o","a","t">>,
                  <<"d","e","c","i","m","a","l">>, <<"o","b","j","e","c","t">>>>

\* a pattern list whose class mode lost the interface branch
_get_search_patterns_no_interface(query, search_type) ==
    CASE search_type = "content" ->
           << <<Lit(query)>> >>
      [] search_type = "class" ->
           << <<WordB, Lit(KW_class),  Rep("s", 1), Lit(query), WordB>>,
              <<WordB, Lit(KW_struct), Rep("s", 1), Lit(query), WordB>>,
              <<WordB, Lit(KW_enum),   Rep("s", 1), Lit(query), WordB>> >>
      [] search_type = "method" ->
           << <<WordB, Lit(query), Rep("s", 0), Lit(<<"(">>)>>,
              <<Alt(ModifierWords), Rep("any", 0), WordB, Lit(query),
                Rep("s", 0), Lit(<<"(">>)>> >>
      [] search_type = "variable" ->
           << <<WordB, Lit(query), WordB>>,
              <<Alt(TypeWords), Rep("s", 1), Lit(query), WordB>> >>
      [] OTHER -> <<>>

\* re.escape(query) embedded in a pattern matches the query literally
_get_search_patterns(query, search_type) ==
    CASE search_type = "content" ->
           << <<Lit(query)>> >>
      [] search_type = "class" ->
           << <<WordB, Lit(KW_class),     Rep("s", 1), Lit(query), WordB>>,
              <<WordB, Lit(KW_interface), Rep("s", 1), Lit(query), WordB>>,
              <<WordB, Lit(KW_struct),    Rep("s", 1), Lit(query), WordB>>,
              <<WordB, Lit(KW_enum),      Rep("s", 1), Lit(query), WordB>> >>
      [] search_type = "method" ->
           << <<WordB, Lit(query), Rep("s", 0), Lit(<<"(">>)>>,
              <<Alt(ModifierWords), Rep("any", 0), WordB, Lit(query),
                Rep("s", 0), Lit(<<"(">>)>> >>
      [] search_type = "variable" ->
           << <<WordB, Lit(query), WordB>>,
              <<Alt(TypeWords), Rep("s", 1), Lit(query), WordB>> >>
      [] OTHER -> <<>>

\* a record whose context leaves out the lines before the match
LineMatch_no_lines_before(lines, i, rel, search_type, context_lines) ==
    LET start_line == i - 1
        end_line   == IMin(Len(lines), i + context_lines)
    IN  [file               |-> rel,
         type               |-> search_type,
         line_number        |-> i,
         match              |-> strip(lines[i]),
         context            |-> SubSeq(lines, start_line + 1, end_line),
         context_start_line |-> start_line + 1]

\* the record appended for a match of line i (lines 199-211)
LineMatch(lines, i, rel, search_type, context_lines) ==
    LET start_line == IMax(0, i - 1 - context_lines)
        end_line   == IMin(Len(lines), i + context_lines)
    IN  [file               |-> rel,
         type               |-> search_type,
         line_number        |-> i,
         match              |-> strip(lines[i]),
         context            |-> SubSeq(lines, start_line + 1, end_line),
         context_start_line |-> start_line + 1]

\* loops that go on to the next pattern after a match
RECURSIVE SearchLines_no_break(_, _, _, _, _, _, _, _)
SearchLines_no_break(lines, i, pats, p, rel, search_type, case_sensitive, context_lines) ==
    IF i > Len(lines) THEN <<>>
    ELSE IF p > Len(pats)
    THEN SearchLines_no_break(lines, i + 1, pats, 1, rel, search_type,
                              case_sensitive, context_lines)
    ELSE IF re_search(pats[p], lines[i], ~case_sensitive)
    THEN <<LineMatch(lines, i, rel, search_type, context_lines)>>
         \o SearchLines_no_break(lines, i, pats, p + 1, rel, search_type,
                                 case_sensitive, context_lines)
    ELSE SearchLines_no_break(lines, i, pats, p + 1, rel, search_type,
                              case_sensitive, context_lines)

\* the two loops of lines 195-212: line i, pattern p
RECURSIVE SearchLines(_, _, _, _, _, _, _, _)
SearchLines(lines, i, pats, p, rel, search_type, case_sensitive, context_lines) ==
    IF i > Len(lines) THEN <<>>
    ELSE IF p > Len(pats)
    THEN SearchLines(lines, i + 1, pats, 1, rel, search_type, case_sensitive, context_lines)
    ELSE IF re_search(pats[p], lines[i], ~case_sensitive)
    THEN <<LineMatch(lines, i, rel, search_type, context_lines)>>
         \o SearchLines(lines, i + 1, pats, 1, rel, search_type, case_sensitive, context_lines)
    ELSE SearchLines(lines, i, pats, p + 1, rel, search_type, case_sensitive, context_lines)

\* a filename branch that numbers its record like a content match
FilenameMatches_line1(name, rel, query, case_sensitive) ==
    IF \/ (case_sensitive /\ Contains(name, query))
       \/ (~case_sensitive /\ Contains(lower(name), lower(query)))
    THEN << [file |-> rel, type |-> "filename", match |-> name, line_number |-> 1] >>
    ELSE <<>>

\* the branch of lines 182-190
FilenameMatches(name, rel, query, case_sensitive) ==
    IF \/ (case_sensitive /\ Contains(name, query))
       \/ (~case_sensitive /\ Contains(lower(name), lower(query)))
    THEN << [file |-> rel, type |-> "filename", match |-> name, line_number |-> 0] >>
    ELSE <<>>

_search_in_file(content, d, name, query, search_type, case_sensitive, context_lines) ==
    LET lines         == split_lines(content)
        relative_path == relative_to(d, name)
    IN  IF search_type = "filename"
        THEN FilenameMatches(name, relative_path, query, case_sensitive)
        ELSE IF search_type \in {"content", "class", "method", "variable"}
        THEN SearchLines(lines, 1, _get_search_patterns(query, search_type), 1,
                         relative_path, search_type, case_sensitive, context_lines)
        ELSE <<>>

(***************************************************************************)
(* StructuralAnalyzer                                                      *)
(***************************************************************************)
USING_SP    == <<"u","s","i","n","g"," ">>
USING_PAREN == <<"u","s","i","n","g"," ","(">>
PAT_namespace == <<Lit(<<"n","a","m","e","s","p","a","c","e">>), Rep("s", 1), Rep("wdot", 1)>>
PAT_class     == <<Rep("any", 0), Lit(KW_class), Rep("s", 1), Rep("w", 1)>>
PAT_interface == <<Rep("any", 0), Lit(KW_interface), Rep("s", 1), Rep("w", 1)>>
PAT_method    == <<Rep("any", 0), Alt(AccessWords), Rep("any", 0), Rep("s", 1),
                   Rep("w", 1), Rep("s", 0), Lit(<<"(">>)>>
ControlWords  == {<<"i","f">>, <<"f","o","r">>, <<"w","h","i","l","e">>,
                  <<"s","w","i","t","c","h">>, <<"u","s","i","n","g">>}

\* the methods list may grow while it is shorter than this (line 323)
MethodAccumCap == 100
\* the methods returned (line 286)
MethodExportCap == 50

EmptyAnalysis ==
    [namespaces |-> {}, classes |-> {}, interfaces |-> {}, methods |-> <<>>,
     using_statements |-> {}, project_files |-> <<>>]

\* a loop body that appends a method whatever the length of the list
AnalyzeLine_uncapped(raw, rel, a) ==
    LET line == strip(raw)
        namespace_match == re_match(PAT_namespace, line)
        class_match     == re_match(PAT_class, line)
        interface_match == re_match(PAT_interface, line)
        method_match    == re_match(PAT_method, line)
    IN  [a EXCEPT
          !.using_statements =
              IF StartsWith(line, USING_SP) /\ ~StartsWith(line, USING_PAREN)
              THEN @ \cup {line} ELSE @,
          !.namespaces = IF namespace_match.ok THEN @ \cup {namespace_match.cap} ELSE @,
          !.classes    = IF class_match.ok THEN @ \cup {class_match.cap} ELSE @,
          !.interfaces = IF interface_match.ok THEN @ \cup {interface_match.cap} ELSE @,
          !.methods    =
              IF /\ method_match.ok
                 /\ method_match.cap \notin ControlWords
              THEN Append(@, [name |-> method_match.cap, file |-> rel])
              ELSE @]

\* the body of the loop of lines 299-329 for one line
AnalyzeLine(raw, rel, a) ==
    LET line == strip(raw)
        namespace_match == re_match(PAT_namespace, line)
        class_match     == re_match(PAT_class, line)
        interface_match == re_match(PAT_interface, line)
        method_match    == re_match(PAT_method, line)
    IN  [a EXCEPT
          !.using_statements =
              IF StartsWith(line, USING_SP) /\ ~StartsWith(line, USING_PAREN)
              THEN @ \cup {line} ELSE @,
          !.namespaces = IF namespace_match.ok THEN @ \cup {namespace_match.cap} ELSE @,
          !.classes    = IF class_match.ok THEN @ \cup {class_match.cap} ELSE @,
          !.interfaces = IF interface_match.ok THEN @ \cup {interface_match.cap} ELSE @,
          !.methods    =
              IF /\ method_match.ok
                 /\ Len(@) < MethodAccumCap
                 /\ method_match.cap \notin ControlWords
              THEN Append(@, [name |-> method_match.cap, file |-> rel])
              ELSE @]

\* the loop of lines 299-329: the accumulator after the first k lines
AnalyzeLines(lines, rel, a) ==
    LET after[k \in 0..Len(lines)] ==
            IF k = 0 THEN a ELSE AnalyzeLine(lines[k], rel, after[k - 1])
    IN  after[Len(lines)]

\* a file that cannot be opened leaves the accumulator as it was (line 331)
_analyze_cs_file(f, d, a) ==
    IF ~f.read_ok THEN a
    ELSE AnalyzeLines(split_lines(f.content), relative_to(d, f.name), a)

(***************************************************************************)
(* Inputs                                                                  *)
(***************************************************************************)
\* max_results is drawn from MaxResultsChoices, context_lines from 0..MaxContextArg
MaxResultsArg == 2
MaxContextArg == 1

\* max_results is an int that search_code takes as it comes (line 110): a
\* caller may pass a negative one
MaxResultsChoices == (-1)..MaxResultsArg

Queries == {<<"R","e","p","o","s","i","t","o","r","y">>,
            <<"I","U","s","e","r","R","e","p","o","s","i","t","o","r","y">>}
SearchTypes == {"content", "filename", "class", "method", "variable"}

NoArgs == [query |-> <<>>, search_type |-> "", case_sensitive |-> FALSE,
           max_results |-> 0, context_lines |-> 0]
NoRet  == [pending |-> TRUE]
NoKwargs == [action |-> "none"]
EmptySummary == [e \in {} |-> <<>>]

DirNamings   == {dn \in [Dirs -> 0..Len(DirNamePool)] :
                   /\ dn[Root] = 0
                   /\ \A d \in Dirs \ {Root} : dn[d] \in DirNameChoices[d]}
\* a root that does not exist has nothing below it
MissingRoot == [root_exists |-> FALSE,
                dname |-> [d \in Dirs |-> 0], slot |-> [k \in Slots |-> 1]]

Init ==
    /\ cfg \in 1..Len(ConfigChoices)
    /\ fs \in {[root_exists |-> TRUE, dname |-> dn, slot |-> sl] :
                  dn \in DirNamings, sl \in SlotFillings} \cup {MissingRoot}
    /\ pc = "idle"
    /\ op = "none"
    /\ args = NoArgs
    /\ walk = <<>>
    /\ cur = 0
    /\ todo = <<>>
    /\ results = <<>>
    /\ file_summary = EmptySummary
    /\ total_files = 0
    /\ analysis = EmptyAnalysis
    /\ reads = <<>>
    /\ ret = NoRet
    /\ kwargs = NoKwargs
    /\ payload = NoRet
    /\ first = NoRet

(***************************************************************************)
(* Walker: os.walk(self.code_folder_path), top-down, errors ignored        *)
(***************************************************************************)
\* os.walk of a root that cannot be listed yields nothing
WalkStart == IF fs.root_exists THEN <<Root>> ELSE <<>>

\* a slice that keeps the last n elements
SlicePrefix_keeps_last(seq, n) ==
    IF n >= 0 THEN SubSeq(seq, Len(seq) - IMin(n, Len(seq)) + 1, Len(seq))
    ELSE SubSeq(seq, 1, IMax(0, Len(seq) + n))

\* results[:max_results]
SlicePrefix(seq, n) ==
    IF n >= 0 THEN SubSeq(seq, 1, IMin(n, Len(seq)))
    ELSE SubSeq(seq, 1, IMax(0, Len(seq) + n))

\* a conversion that lists one element twice
ListsOf_repeating(S) ==
    IF S = {} THEN {<<>>}
    ELSE {l \in [1..(Cardinality(S) + 1) -> S] :
            \A e \in S : \E i \in 1..(Cardinality(S) + 1) : l[i] = e}

\* list(a_set): the elements once each, in an order the set decides
ListsOf(S) ==
    {l \in [1..Cardinality(S) -> S] : \A e \in S : \E i \in 1..Cardinality(S) : l[i] = e}

\* a return that forgets to cut the results
SearchReturn_uncut ==
    [query         |-> args.query,
     search_type   |-> args.search_type,
     total_matches |-> Len(results),
     results       |-> results]

\* lines 163-168
SearchReturn ==
    [query         |-> args.query,
     search_type   |-> args.search_type,
     total_matches |-> Len(results),
     results       |-> SlicePrefix(results, args.max_results)]

\* lines 100-104
ScanReturn ==
    [summary |-> file_summary, total_files |-> total_files, project_root |-> <<>>]

\* lines 282-289
AnalyzeReturns ==
    {[namespaces       |-> ns,
      classes          |-> cl,
      interfaces       |-> itf,
      methods          |-> SlicePrefix(analysis.methods, MethodExportCap),
      using_statements |-> us,
      project_files    |-> analysis.project_files] :
        ns \in ListsOf(analysis.namespaces), cl \in ListsOf(analysis.classes),
        itf \in ListsOf(analysis.interfaces), us \in ListsOf(analysis.using_statements)}

\* str.rstrip()
rstrip(s) ==
    LET keep == {i \in 1..Len(s) : ~IsSpaceChar(s[i])}
    IN  IF keep = {} THEN <<>> ELSE SubSeq(s, 1, SetMax(keep))

\* f.readlines(): the lines with their newline; no last line after a final newline
readlines(s) ==
    LET parts == split_lines(s)
        n     == Len(parts)
        whole == [k \in 1..(n - 1) |-> parts[k] \o <<"\n">>]
    IN  IF parts[n] = <<>> THEN whole ELSE Append(whole, parts[n])

\* f"{i:4d}": the digits, padded on the left with spaces to four characters
Format4d(i) ==
    LET d == DigitsOf(i)
    IN  [k \in 1..IMax(0, 4 - Len(d)) |-> " "] \o d

RECURSIVE Join(_)
Join(ls) == IF ls = <<>> THEN <<>> ELSE Head(ls) \o Join(Tail(ls))

\* max_lines is drawn from -1..MaxLinesArg
MaxLinesArg == 4

\* a relative path that names nothing
MissingPath == <<"N","o","p","e",".","c","s">>
FilePaths ==
    (IF fs.root_exists
     THEN {relative_to(DirOfSlot(sl), FileAt(sl).name) : sl \in Slots} ELSE {})
    \cup {MissingPath}

\* the slot of the file self.code_folder_path / file_path names, 0 when none
Resolve(file_path) ==
    IF ~fs.root_exists THEN 0
    ELSE LET at == {sl \in Slots :
                      relative_to(DirOfSlot(sl), FileAt(sl).name) = file_path}
         IN  IF at # {} THEN CHOOSE sl \in at : TRUE ELSE 0

\* a result that tells every file it is cut
GetFileReturn_always_cut(file_path, content, max_lines) ==
    LET lines         == readlines(content)
        total_lines   == Len(lines)
        limited_lines == SlicePrefix(lines, max_lines)
    IN  [file          |-> file_path,
         total_lines   |-> total_lines,
         showing_lines |-> Len(limited_lines),
         truncated     |-> total_lines >= max_lines,
         content       |-> [i \in 1..Len(limited_lines) |->
                               Format4d(i) \o <<":", " ">> \o rstrip(limited_lines[i])],
         raw_content   |-> Join(limited_lines)]

\* lines 352-369
GetFileReturn(file_path, content, max_lines) ==
    LET lines         == readlines(content)
        total_lines   == Len(lines)
        limited_lines == SlicePrefix(lines, max_lines)
    IN  [file          |-> file_path,
         total_lines   |-> total_lines,
         showing_lines |-> Len(limited_lines),
         truncated     |-> total_lines > max_lines,
         content       |-> [i \in 1..Len(limited_lines) |->
                               Format4d(i) \o <<":", " ">> \o rstrip(limited_lines[i])],
         raw_content   |-> Join(limited_lines)]

\* an accumulation that puts the new records first
extend_at_front(rs, file_matches) == file_matches \o rs

\* results.extend(file_matches) (line 148)
extend(rs, file_matches) == rs \o file_matches

\* a cap test that is off by one
ReachedCap_above(n, max_results) == n > max_results

\* len(results) >= max_results (lines 150 and 157)
ReachedCap(n, max_results) == n >= max_results

\* a read error that leaves the inner loop instead of going on
read_error_breaks == "after_files"

\* where the inner loop goes when reading a file raises (lines 153-155: continue)
read_error_next == "files"

\* an outer loop that lacks the test after the inner loop
outer_loop_goes_on(n, max_results) == FALSE

\* the test after the inner loop, which leaves the walk (lines 157-158)
outer_loop_breaks(n, max_results) == ReachedCap(n, max_results)

\* search_code as one computation over the tree without the files in the
\* slots of gone: the walk (lines 128-132), the inner loop (lines 134-155)
\* and the check after it (lines 157-158); the value is the final `results`
RECURSIVE search_code_dirs(_, _, _, _), search_code_files(_, _, _, _, _, _)
search_code_dirs(stack, res, gone, a) ==
    IF stack = <<>> THEN res
    ELSE LET d == Head(stack)
         IN  search_code_files(PruneDirs(SubDirs[d]) \o Tail(stack), d, SlotsOf[d],
                               res, gone, a)

search_code_files(stack, d, files, res, gone, a) ==
    IF files = <<>>
    THEN IF outer_loop_breaks(Len(res), a.max_results) THEN res
         ELSE search_code_dirs(stack, res, gone, a)
    ELSE LET sl == Head(files)
             f  == FileAt(sl)
         IN  IF sl \in gone \/ ~_should_include_file(f) \/ ~f.read_ok
             THEN search_code_files(stack, d, Tail(files), res, gone, a)
             ELSE LET res2 == extend(res, _search_in_file(f.content, d, f.name, a.query,
                                        a.search_type, a.case_sensitive, a.context_lines))
                  IN  IF ReachedCap(Len(res2), a.max_results) THEN res2
                      ELSE search_code_files(stack, d, Tail(files), res2, gone, a)

\* the `results` search_code returns over the tree without the files of gone
search_code_without(gone) ==
    SlicePrefix(search_code_dirs(WalkStart, <<>>, gone, args), args.max_results)

(***************************************************************************)
(* Operations                                                              *)
(***************************************************************************)
\* lines 77-81: the root is tested, then the walk starts
scan_codebase ==
    /\ pc = "idle"
    /\ op' = "scan"
    /\ IF ~fs.root_exists
       THEN /\ ret' = [raised |-> "FileNotFoundError"]
            /\ pc' = "done"
            /\ walk' = <<>>
       ELSE /\ ret' = NoRet
            /\ pc' = "walk"
            /\ walk' = WalkStart
    /\ file_summary' = EmptySummary
    /\ total_files' = 0
    /\ UNCHANGED <<fs, cfg, args, cur, todo, results, analysis, reads>>

\* lines 125-128: results = [], then the walk starts
search_code(query, search_type, case_sensitive, max_results, context_lines) ==
    /\ pc = "idle"
    /\ args' = [query |-> query, search_type |-> search_type,
                case_sensitive |-> case_sensitive,
                max_results |-> max_results, context_lines |-> context_lines]
    /\ op' = "search"
    /\ results' = <<>>
    /\ walk' = WalkStart
    /\ pc' = "walk"
    /\ UNCHANGED <<fs, cfg, cur, todo, file_summary, total_files, analysis, reads, ret>>

\* lines 254-264: the empty analysis, then the walk starts
analyze_project_structure ==
    /\ pc = "idle"
    /\ op' = "analyze"
    /\ analysis' = EmptyAnalysis
    /\ walk' = WalkStart
    /\ pc' = "walk"
    /\ UNCHANGED <<fs, cfg, args, cur, todo, results, file_summary, total_files, reads, ret>>

\* lines 346-372: exists() is False for a path that names nothing; a stat()
\* that fails either reads as absence or raises, and open() may raise
get_file_content(file_path, max_lines) ==
    /\ pc = "idle"
    /\ op' = "get_file"
    /\ args' = [file_path |-> file_path, max_lines |-> max_lines]
    /\ LET sl == Resolve(file_path)
       IN  IF sl = 0
           THEN /\ ret' = [error |-> "File not found"]
                /\ UNCHANGED reads
           ELSE IF ~FileAt(sl).stat_ok
           THEN /\ ret' \in {[error |-> "File not found"], [error |-> "Failed to read file"]}
                /\ UNCHANGED reads
           ELSE /\ reads' = Append(reads, sl)
                /\ ret' = IF ~FileAt(sl).read_ok
                          THEN [error |-> "Failed to read file"]
                          ELSE GetFileReturn(file_path, FileAt(sl).content, max_lines)
    /\ pc' = "done"
    /\ UNCHANGED <<fs, cfg, walk, cur, todo, results, file_summary, total_files, analysis>>

\* a client calls the searcher's methods directly
scan_codebase_call ==
    /\ scan_codebase
    /\ UNCHANGED <<kwargs, payload, first>>

search_code_call ==
    /\ \E q \in Queries, st \in SearchTypes, cs \in BOOLEAN,
          mr \in MaxResultsChoices, cl \in 0..MaxContextArg :
          search_code(q, st, cs, mr, cl)
    /\ UNCHANGED <<kwargs, payload, first>>

analyze_project_structure_call ==
    /\ analyze_project_structure
    /\ UNCHANGED <<kwargs, payload, first>>

get_file_content_call ==
    /\ \E file_path \in FilePaths, max_lines \in -1..MaxLinesArg :
          get_file_content(file_path, max_lines)
    /\ UNCHANGED <<kwargs, payload, first>>

\* the defaults of search_code and get_file_content that execute_code_search
\* leaves in place, and of kwargs.get("max_results", 20)
DefaultContextLines == 3
DefaultMaxLines == 100
DefaultMaxResults == 20

\* the values of kwargs["action"]; "list" is none of the actions known
ActionNames == {"scan", "analyze", "search", "get_file", "list"}

\* json.dumps: a text; `json` is the value it denotes
json_dumps(v) == [json |-> v]

\* an exception that leaves execute_code_search
ExceptionEscapes(r) == r

\* lines 467-468: except Exception as e
ExceptionCaught(r) == json_dumps([error |-> "Code search failed"])

\* the keyword arguments a caller passes: the keys the action reads
KwargsChoices ==
    {[action |-> act] : act \in ActionNames \ {"search", "get_file"}}
    \cup {[action |-> "search", query |-> q, search_type |-> st,
           case_sensitive |-> cs, max_results |-> mr] :
             q \in Queries \cup {<<>>}, st \in SearchTypes, cs \in BOOLEAN,
             mr \in (0..MaxResultsArg) \cup {DefaultMaxResults}}
    \cup {[action |-> "get_file", query |-> q] : q \in FilePaths \cup {<<>>}}

\* lines 434-462: the dispatch on action; an empty query returns at once
execute_code_search_call ==
    /\ pc = "idle"
    /\ UNCHANGED first
    /\ \E kw \in KwargsChoices :
          /\ kwargs' = kw
          /\ CASE kw.action = "scan" ->
                    scan_codebase /\ payload' = NoRet
               [] kw.action = "analyze" ->
                    analyze_project_structure /\ payload' = NoRet
               [] kw.action = "search" ->
                    IF kw.query = <<>>
                    THEN /\ payload' = json_dumps(
                                [error |-> "Query is required for search action"])
                         /\ pc' = "done"
                         /\ UNCHANGED <<fs, cfg, op, args, walk, cur, todo, results,
                                        file_summary, total_files, analysis, reads, ret>>
                    ELSE /\ search_code(kw.query, kw.search_type, kw.case_sensitive,
                                        kw.max_results, DefaultContextLines)
                         /\ payload' = NoRet
               [] kw.action = "get_file" ->
                    IF kw.query = <<>>
                    THEN /\ payload' = json_dumps(
                                [error |-> "File path is required for get_file action"])
                         /\ pc' = "done"
                         /\ UNCHANGED <<fs, cfg, op, args, walk, cur, todo, results,
                                        file_summary, total_files, analysis, reads, ret>>
                    ELSE /\ get_file_content(kw.query, DefaultMaxLines)
                         /\ payload' = NoRet
               [] OTHER ->
                    /\ ret' = [error |-> "Unknown action"]
                    /\ pc' = "done"
                    /\ payload' = NoRet
                    /\ UNCHANGED <<fs, cfg, op, args, walk, cur, todo, results,
                                   file_summary, total_files, analysis, reads>>

\* lines 465-468: the result is dumped; an exception of the method is caught
execute_code_search_return ==
    /\ pc = "done"
    /\ kwargs # NoKwargs
    /\ payload = NoRet
    /\ payload' = IF "raised" \in DOMAIN ret THEN ExceptionCaught(ret)
                  ELSE json_dumps(ret)
    /\ UNCHANGED <<fs, cfg, pc, op, args, walk, cur, todo, results, file_summary,
                   total_files, analysis, reads, ret, kwargs, first>>

\* a listing whose order changes from one call to the next
walk_files_unstable(d) ==
    IF first = NoRet THEN SlotsOf[d]
    ELSE [i \in 1..Len(SlotsOf[d]) |-> SlotsOf[d][Len(SlotsOf[d]) + 1 - i]]

\* the `files` os.walk yields for a directory: the order of its listing
walk_files(d) == SlotsOf[d]

\* os.walk yields the next directory and the loop body prunes its subdirectories
walk_next_dir ==
    /\ pc = "walk"
    /\ walk # <<>>
    /\ LET d == Head(walk)
       IN  /\ cur' = d
           /\ walk' = PruneDirs(SubDirs[d]) \o Tail(walk)
           /\ todo' = walk_files(d)
    /\ pc' = "files"
    /\ UNCHANGED <<fs, cfg, op, args, results, file_summary, total_files, analysis, reads, ret>>
    /\ UNCHANGED <<kwargs, payload, first>>

\* os.walk is exhausted: the operation returns
walk_exhausted ==
    /\ pc = "walk"
    /\ walk = <<>>
    /\ ret' \in CASE op = "scan"   -> {ScanReturn}
                  [] op = "search" -> {SearchReturn}
                  [] OTHER         -> AnalyzeReturns
    /\ pc' = "done"
    /\ UNCHANGED <<fs, cfg, op, args, walk, cur, todo, results, file_summary,
                   total_files, analysis, reads, kwargs, payload, first>>

\* a group key that keeps the suffix as written
summary_key_as_written(name) == suffix(name)

\* ext = file_path.suffix.lower() (line 92)
summary_key(name) == lower(suffix(name))

\* scan_codebase, lines 89-98: one file of the inner loop
scan_file ==
    /\ pc = "files" /\ op = "scan" /\ todo # <<>>
    /\ LET f == FileAt(Head(todo))
       IN  IF _should_include_file(f)
           THEN LET ext == summary_key(f.name)
                    old == IF ext \in DOMAIN file_summary THEN file_summary[ext] ELSE <<>>
                IN  /\ file_summary' =
                          [e \in DOMAIN file_summary \cup {ext} |->
                              IF e = ext THEN Append(old, relative_to(cur, f.name))
                              ELSE file_summary[e]]
                    /\ total_files' = total_files + 1
           ELSE UNCHANGED <<file_summary, total_files>>
    /\ todo' = Tail(todo)
    /\ UNCHANGED <<fs, cfg, pc, op, args, walk, cur, results, analysis, reads, ret>>
    /\ UNCHANGED <<kwargs, payload, first>>

\* search_code, lines 134-155: one file of the inner loop
search_file ==
    /\ pc = "files" /\ op = "search" /\ todo # <<>>
    /\ LET sl == Head(todo)
           f  == FileAt(sl)
       IN  IF ~_should_include_file(f)
           THEN UNCHANGED <<results, reads, pc>>                 \* continue
           ELSE /\ reads' = Append(reads, sl)                    \* open(file_path)
                /\ IF ~f.read_ok
                   THEN /\ pc' = read_error_next                 \* except: continue
                        /\ UNCHANGED results
                   ELSE LET matches == _search_in_file(f.content, cur, f.name,
                                           args.query, args.search_type,
                                           args.case_sensitive, args.context_lines)
                        IN  /\ results' = extend(results, matches)
                            /\ pc' = IF ReachedCap(Len(results'), args.max_results)
                                     THEN "after_files"          \* break
                                     ELSE "files"
    /\ todo' = Tail(todo)
    /\ UNCHANGED <<fs, cfg, op, args, walk, cur, file_summary, total_files, analysis, ret>>
    /\ UNCHANGED <<kwargs, payload, first>>

\* analyze_project_structure, lines 270-276: one file of the inner loop
analyze_file ==
    /\ pc = "files" /\ op = "analyze" /\ todo # <<>>
    /\ LET sl == Head(todo)
           f  == FileAt(sl)
           sx == lower(suffix(f.name))
       IN  IF sx = <<".","c","s">>
           THEN /\ reads' = Append(reads, sl)
                /\ analysis' = _analyze_cs_file(f, cur, analysis)
           ELSE IF sx \in {<<".","c","s","p","r","o","j">>, <<".","s","l","n">>}
           THEN /\ analysis' = [analysis EXCEPT
                                  !.project_files = Append(@, relative_to(cur, f.name))]
                /\ UNCHANGED reads
           ELSE UNCHANGED <<analysis, reads>>
    /\ todo' = Tail(todo)
    /\ UNCHANGED <<fs, cfg, pc, op, args, walk, cur, results, file_summary, total_files, ret>>
    /\ UNCHANGED <<kwargs, payload, first>>

\* analyze_project_structure, lines 263-279: an exception leaves the loops (one
\* raised by _should_skip_folder on a skip entry that is no string, for
\* instance); the handler stores its message in analysis, and the return follows
analyze_traversal_raises ==
    /\ op = "analyze"
    /\ (pc = "walk" /\ walk # <<>>) \/ pc = "files"
    /\ "error" \notin DOMAIN analysis
    /\ analysis' = [k \in DOMAIN analysis \cup {"error"} |->
                       IF k = "error" THEN "Analysis failed" ELSE analysis[k]]
    /\ walk' = <<>>
    /\ todo' = <<>>
    /\ pc' = "walk"
    /\ UNCHANGED <<fs, cfg, op, args, cur, results, file_summary, total_files,
                   reads, ret, kwargs, payload, first>>

\* the inner loop has gone through the directory's files
files_exhausted ==
    /\ pc = "files" /\ todo = <<>>
    /\ pc' = IF op = "search" THEN "after_files" ELSE "walk"
    /\ UNCHANGED <<fs, cfg, op, args, walk, cur, todo, results, file_summary,
                   total_files, analysis, reads, ret, kwargs, payload, first>>

\* search_code, lines 157-158: the check after the inner loop
search_after_files ==
    /\ pc = "after_files"
    /\ IF outer_loop_breaks(Len(results), args.max_results)
       THEN /\ ret' = SearchReturn                               \* break, then return
            /\ pc' = "done"
       ELSE /\ pc' = "walk"
            /\ UNCHANGED ret
    /\ UNCHANGED <<fs, cfg, op, args, walk, cur, todo, results, file_summary,
                   total_files, analysis, reads, kwargs, payload, first>>

\* the caller keeps the result of a search and calls search_code again with
\* the same arguments
search_code_again ==
    /\ pc = "done" /\ op = "search"
    /\ kwargs = NoKwargs /\ first = NoRet
    /\ first' = [args |-> args, ret |-> ret]
    /\ results' = <<>>
    /\ walk' = WalkStart
    /\ pc' = "walk"
    /\ cur' = 0
    /\ todo' = <<>>
    /\ reads' = <<>>
    /\ ret' = NoRet
    /\ UNCHANGED <<fs, cfg, op, args, file_summary, total_files, analysis,
                   kwargs, payload>>

\* the caller has the result; the searcher is ready for the next call
call_returned ==
    /\ pc = "done"
    /\ kwargs = NoKwargs \/ payload # NoRet
    /\ pc' = "idle"
    /\ op' = "none"
    /\ args' = NoArgs
    /\ walk' = <<>>
    /\ cur' = 0
    /\ todo' = <<>>
    /\ results' = <<>>
    /\ file_summary' = EmptySummary
    /\ total_files' = 0
    /\ analysis' = EmptyAnalysis
    /\ reads' = <<>>
    /\ ret' = NoRet
    /\ kwargs' = NoKwargs
    /\ payload' = NoRet
    /\ first' = NoRet
    /\ UNCHANGED <<fs, cfg>>

Next ==
    \/ scan_codebase_call
    \/ search_code_call
    \/ analyze_project_structure_call
    \/ get_file_content_call
    \/ walk_next_dir
    \/ walk_exhausted
    \/ scan_file
    \/ search_file
    \/ analyze_file
    \/ files_exhausted
    \/ search_after_files
    \/ call_returned

Spec == Init /\ [][Next]_vars

\* search_code called twice with the same arguments
TwiceNext ==
    \/ search_code_call
    \/ search_code_again
    \/ walk_next_dir
    \/ walk_exhausted
    \/ search_file
    \/ files_exhausted
    \/ search_after_files
    \/ call_returned

TwiceSpec == Init /\ [][TwiceNext]_vars

\* the searcher behind execute_code_search
ExecNext ==
    \/ execute_code_search_call
    \/ walk_next_dir
    \/ walk_exhausted
    \/ scan_file
    \/ search_file
    \/ analyze_file
    \/ files_exhausted
    \/ search_after_files
    \/ execute_code_search_return
    \/ call_returned

ExecSpec == Init /\ [][ExecNext]_vars

\* analyze_project_structure alone, over the trees of both kinds, with the
\* exceptions its handler is there for
AnalyzeInit ==
    /\ cfg \in 1..Len(ConfigChoices)
    /\ fs \in {[root_exists |-> TRUE, dname |-> dn, slot |-> sl] :
                  dn \in DirNamings, sl \in SlotFillings \cup ManyFillings}
              \cup {MissingRoot}
    /\ pc = "idle"
    /\ op = "none"
    /\ args = NoArgs
    /\ walk = <<>>
    /\ cur = 0
    /\ todo = <<>>
    /\ results = <<>>
    /\ file_summary = EmptySummary
    /\ total_files = 0
    /\ analysis = EmptyAnalysis
    /\ reads = <<>>
    /\ ret = NoRet
    /\ kwargs = NoKwargs
    /\ payload = NoRet
    /\ first = NoRet

AnalyzeNext ==
    \/ analyze_project_structure_call
    \/ walk_next_dir
    \/ walk_exhausted
    \/ analyze_file
    \/ analyze_traversal_raises
    \/ files_exhausted
    \/ call_returned

AnalyzeSpec == AnalyzeInit /\ [][AnalyzeNext]_vars

(***************************************************************************)
(* Vocabulary of the properties                                            *)
(***************************************************************************)
Range(seq) == {seq[i] : i \in 1..Len(seq)}

\* the path the operations report for the file in a slot
SlotPath(sl) == relative_to(DirOfSlot(sl), FileAt(sl).name)

\* the directory's base name contains a configured fragment, case-insensitively
NameHasFragment(d) ==
    \E i \in 1..Len(skip_folders) :
        LET frag == lower(skip_folders[i])
            nm   == lower(DirName(d))
        IN  \E k \in 1..Len(nm) :
               k + Len(frag) - 1 <= Len(nm) /\ SubSeq(nm, k, k + Len(frag) - 1) = frag

\* the directory lies in the subtree of a directory below the root whose name
\* contains a fragment
RECURSIVE InSkippedSubtree(_)
InSkippedSubtree(d) ==
    d # Root /\ (NameHasFragment(d) \/ InSkippedSubtree(ParentOf[d]))

SlotSkipped(sl) == InSkippedSubtree(DirOfSlot(sl))

\* the paths a scan summary lists
Listed(summary) == UNION {Range(summary[e]) : e \in DOMAIN summary}

\* the paths the records of a search name
RecordFiles(rs) == {rs[i].file : i \in 1..Len(rs)}

\* what the analysis of one file alone yields
AloneAnalysis(sl) == _analyze_cs_file(FileAt(sl), DirOfSlot(sl), EmptyAnalysis)

SetFields == {"namespaces", "classes", "interfaces", "using_statements"}

\* the accumulated analysis holds only what the slots of S yield
AccumFrom(a, S) ==
    /\ \A fld \in SetFields : \A n \in a[fld] : \E sl \in S : n \in AloneAnalysis(sl)[fld]
    /\ \A i \in 1..Len(a.methods) : \E sl \in S : a.methods[i].file = SlotPath(sl)
    /\ \A i \in 1..Len(a.project_files) : \E sl \in S : a.project_files[i] = SlotPath(sl)

\* the returned analysis holds only what the slots of S yield
ReturnedFrom(r, S) ==
    /\ \A fld \in SetFields :
          \A i \in 1..Len(r[fld]) : \E sl \in S : r[fld][i] \in AloneAnalysis(sl)[fld]
    /\ \A i \in 1..Len(r.methods) : \E sl \in S : r.methods[i].file = SlotPath(sl)
    /\ \A i \in 1..Len(r.project_files) : \E sl \in S : r.project_files[i] = SlotPath(sl)

Returned(o) == pc = "done" /\ op = o /\ "raised" \notin DOMAIN ret

STR_cabinet == <<"c","a","b","i","n","e","t">>
STR_Foo     == <<"F","o","o">>
STR_Bar     == <<"B","a","r">>

(***************************************************************************)
(* C1.  No file in the subtree of a directory below the root whose base    *)
(* name contains a configured skip-fragment (case-insensitive substring)   *)
(* is opened by a walk, listed by scan_codebase, named by a record of      *)
(* search_code,                                                            *)
(* or contributes to analyze_project_structure: in every state of a run    *)
(* and in what the operation returns.                                      *)
(***************************************************************************)
C1_SkippedSubtreesNeverAppear ==
    fs.root_exists =>
      LET kept == {sl \in Slots : ~SlotSkipped(sl)}
      IN  /\ \A sl \in Slots \ kept :
                /\ op \in {"scan", "search", "analyze"} => sl \notin Range(reads)
                /\ SlotPath(sl) \notin Listed(file_summary)
                /\ SlotPath(sl) \notin RecordFiles(results)
                /\ Returned("scan")   => SlotPath(sl) \notin Listed(ret.summary)
                /\ Returned("search") => SlotPath(sl) \notin RecordFiles(ret.results)
          /\ AccumFrom(analysis, kept)
          /\ Returned("analyze") => ReturnedFrom(ret, kept)

\* analyze has returned over a tree whose directory "cabinet" (fragment "bin")
\* holds Generated.cs with `class Bar`: Foo is reported, Bar is not
C1_Witness ==
    /\ Returned("analyze")
    /\ fs.root_exists /\ cfg = 1
    /\ DirName(2) = STR_cabinet
    /\ fs.slot[2] = 2
    /\ STR_Foo \in Range(ret.classes)
    /\ STR_Bar \notin Range(ret.classes)

(***************************************************************************)
(* C2.  Every file scan_codebase lists and every file a record of          *)
(* search_code names has a lower-cased suffix equal to a lower-cased       *)
(* configured extension and a size of at most the ceiling; a file of       *)
(* exactly the ceiling is listed; a file whose size cannot be read is left *)
(* out and the operation still returns normally.                           *)
(***************************************************************************)
ExtConfigured(f) ==
    \E i \in 1..Len(file_extensions) : lower(suffix(f.name)) = lower(file_extensions[i])

Admissible(f) == ExtConfigured(f) /\ f.stat_ok /\ f.size <= max_file_size_bytes

C2_OnlyAdmittedFilesAppear ==
    fs.root_exists =>
      /\ \A sl \in Slots :
            (\/ SlotPath(sl) \in Listed(file_summary)
             \/ SlotPath(sl) \in RecordFiles(results)
             \/ Returned("scan") /\ SlotPath(sl) \in Listed(ret.summary)
             \/ Returned("search") /\ SlotPath(sl) \in RecordFiles(ret.results))
            => Admissible(FileAt(sl))
      /\ Returned("scan") =>
            \A sl \in Slots :
               (~SlotSkipped(sl) /\ Admissible(FileAt(sl))
                  /\ FileAt(sl).size = max_file_size_bytes)
               => SlotPath(sl) \in Listed(ret.summary)
      /\ (pc = "done" /\ op \in {"scan", "search"}) =>
            ("raised" \notin DOMAIN ret /\ "error" \notin DOMAIN ret)

\* a scan has returned over a tree with a file whose stat() fails, a file over
\* the ceiling and a listed file of exactly the ceiling
C2_Witness ==
    /\ Returned("scan") /\ fs.root_exists
    /\ \E s1, s2 \in Slots :
          /\ ~SlotSkipped(s1) /\ ExtConfigured(FileAt(s1)) /\ ~FileAt(s1).stat_ok
          /\ ~SlotSkipped(s2) /\ FileAt(s2).size = max_file_size_bytes
          /\ SlotPath(s2) \in Listed(ret.summary)
          /\ SlotPath(s1) \notin Listed(ret.summary)

(***************************************************************************)
(* C3.  analyze_project_structure applies the admission test: a file over  *)
(* the size ceiling, or whose extension is not configured, contributes     *)
(* nothing to the analysis.                                                *)
(***************************************************************************)
C3_AnalyzeAppliesAdmission ==
    fs.root_exists =>
      LET admitted == {sl \in Slots : Admissible(FileAt(sl))}
      IN  /\ AccumFrom(analysis, admitted)
          /\ Returned("analyze") => ReturnedFrom(ret, admitted)

(***************************************************************************)
(* C4.  For max_results >= 0, search_code returns at most max_results      *)
(* records.                                                                *)
(***************************************************************************)
C4_ResultsAtMostMaxResults ==
    (Returned("search") /\ args.max_results >= 0)
    => Len(ret.results) <= args.max_results

\* more records were accumulated than asked for, and the return cut them
C4_Witness ==
    /\ Returned("search")
    /\ args.max_results >= 1
    /\ Len(results) > args.max_results
    /\ Len(ret.results) = args.max_results

(***************************************************************************)
(* C5.  Once a file has been processed and the accumulated count has       *)
(* reached max_results, search_code opens no further file, enters no       *)
(* further directory and adds no record.  With max_results = 1 and three   *)
(* or more files holding matches, one record is returned and the files     *)
(* opened are those up to and including the first file with a match.       *)
(***************************************************************************)
FileProcessed == \E i \in 1..Len(reads) : FileAt(reads[i]).read_ok

\* the slots whose file the search would find matches in
MatchingSlots ==
    {sl \in Slots :
        /\ ~SlotSkipped(sl) /\ Admissible(FileAt(sl)) /\ FileAt(sl).read_ok
        /\ _search_in_file(FileAt(sl).content, DirOfSlot(sl), FileAt(sl).name,
                           args.query, args.search_type, args.case_sensitive,
                           args.context_lines) # <<>>}

\* slots are numbered in the order the walk reaches them
OpenedUpTo(last) ==
    {sl \in Slots : sl <= last /\ ~SlotSkipped(sl) /\ Admissible(FileAt(sl))}

C5_Scenario ==
    (Returned("search") /\ fs.root_exists /\ args.max_results = 1
        /\ Cardinality(MatchingSlots) >= 3)
    => /\ Len(ret.results) = 1
       /\ Range(reads) = OpenedUpTo(SetMin(MatchingSlots))
       /\ \A i \in 1..(Len(reads) - 1) : reads[i] < reads[i + 1]

C5_StopsAtCap ==
    /\ []C5_Scenario
    /\ [][(op = "search" /\ pc # "done" /\ FileProcessed
              /\ Len(results) >= args.max_results)
          => (reads' = reads /\ cur' = cur /\ results' = results)]_vars

\* the scenario: three files with matches, the search stopped after the first
C5_Witness ==
    /\ Returned("search") /\ fs.root_exists /\ args.max_results = 1
    /\ Cardinality(MatchingSlots) >= 3
    /\ \E sl \in MatchingSlots : sl \notin Range(reads)

(***************************************************************************)
(* C6.  Class mode, query "Repository".  As claimed: a processed file with *)
(* the line `public interface IUserRepository` yields a record, and a file *)
(* whose only line is `var myRepository = new Thing();` yields none.       *)
(***************************************************************************)
STR_Repository == <<"R","e","p","o","s","i","t","o","r","y">>
STR_IUserRepository == <<"I","U","s","e","r","R","e","p","o","s","i","t","o","r","y">>
LINE_interface == <<"p","u","b","l","i","c"," ","i","n","t","e","r","f","a","c","e"," ","I","U","s","e","r","R","e","p","o","s","i","t","o","r","y">>
LINE_var       == <<"v","a","r"," ","m","y","R","e","p","o","s","i","t","o","r","y"," ","="," ","n","e","w"," ","T","h","i","n","g","(",")",";">>

\* the slots whose file search_code has read and searched
ProcessedSlots == {sl \in Range(reads) : FileAt(sl).read_ok}

HasLine(f, l) == l \in Range(split_lines(f.content))

C6_Original ==
    (op = "search" /\ args.search_type = "class" /\ args.query = STR_Repository)
    => \A sl \in ProcessedSlots :
          /\ HasLine(FileAt(sl), LINE_interface)
                => SlotPath(sl) \in RecordFiles(results)
          /\ split_lines(FileAt(sl).content) = <<LINE_var>>
                => SlotPath(sl) \notin RecordFiles(results)

(* C6 as amended.  In class mode the query must follow the keyword as a    *)
(* whole word: a file whose only line is `public interface IUserRepository`*)
(* yields no record for the query "Repository" and one record, of line 1,  *)
(* for the query "IUserRepository"; the file whose only line is            *)
(* `var myRepository = new Thing();` yields none for either query.         *)
C6_WholeWordAfterKeyword ==
    (op = "search" /\ args.search_type = "class")
    => \A sl \in ProcessedSlots :
          /\ split_lines(FileAt(sl).content) = <<LINE_interface>>
                => /\ args.query = STR_Repository
                        => SlotPath(sl) \notin RecordFiles(results)
                   /\ args.query = STR_IUserRepository
                        => \E i \in 1..Len(results) :
                              /\ results[i].file = SlotPath(sl)
                              /\ results[i].line_number = 1
                              /\ results[i].match = LINE_interface
          /\ split_lines(FileAt(sl).content) = <<LINE_var>>
                => SlotPath(sl) \notin RecordFiles(results)

\* a class search for "Repository" has read the interface file and returned
\* without a record for it
C6_Witness ==
    /\ Returned("search") /\ args.search_type = "class" /\ args.query = STR_Repository
    /\ \E sl \in ProcessedSlots :
          /\ split_lines(FileAt(sl).content) = <<LINE_interface>>
          /\ SlotPath(sl) \notin RecordFiles(results)

(***************************************************************************)
(* C7.  With a root that does not exist, scan_codebase, search_code and    *)
(* analyze_project_structure each end with a failure: an exception or a    *)
(* result with an `error` field.                                           *)
(***************************************************************************)
C7_MissingRootSurfaces ==
    (pc = "done" /\ ~fs.root_exists)
    => ("raised" \in DOMAIN ret \/ "error" \in DOMAIN ret)

(***************************************************************************)
(* C8.  A file whose read raises is skipped: search_code returns without   *)
(* an error, and the records it returns are those of the same search over  *)
(* the tree without that file (without any set of such files).             *)
(***************************************************************************)
UnreadableSlots == {sl \in Slots : ~FileAt(sl).read_ok}

C8_UnreadableFileIsAsIfAbsent ==
    (Returned("search") /\ fs.root_exists)
    => /\ "error" \notin DOMAIN ret
       /\ \A gone \in SUBSET UnreadableSlots :
             ret.results = search_code_without(gone)

\* a read failed, and a file read after it gave a returned record
C8_Witness ==
    /\ Returned("search") /\ fs.root_exists
    /\ \E i, j \in 1..Len(reads) :
          /\ i < j
          /\ ~FileAt(reads[i]).read_ok
          /\ DirOfSlot(reads[i]) = DirOfSlot(reads[j])
          /\ SlotPath(reads[j]) \in RecordFiles(ret.results)

(***************************************************************************)
(* C9.  In filename mode every record, accumulated or returned, has        *)
(* line_number 0 and no two records name the same file.                    *)
(***************************************************************************)
FilenameRecords(rs) ==
    /\ \A i \in 1..Len(rs) : rs[i].line_number = 0
    /\ \A i, j \in 1..Len(rs) : rs[i].file = rs[j].file => i = j

C9_FilenameRecords ==
    (op = "search" /\ args.search_type = "filename")
    => /\ FilenameRecords(results)
       /\ Returned("search") => FilenameRecords(ret.results)

\* a filename search has returned two records
C9_Witness ==
    /\ Returned("search") /\ args.search_type = "filename"
    /\ Len(ret.results) >= 2

(***************************************************************************)
(* C10.  In filename mode, whether an admitted file the walk has reached   *)
(* yields a record depends only on its base name, the query and            *)
(* case_sensitive: not on its content, nor on whether it can be read.      *)
(***************************************************************************)
NameMatches(name, query, case_sensitive) ==
    IF case_sensitive THEN Contains(name, query)
    ELSE Contains(lower(name), lower(query))

C10_FilenameIgnoresContent ==
    (op = "search" /\ args.search_type = "filename" /\ fs.root_exists)
    => \A sl \in Range(reads) :
          NameMatches(FileAt(sl).name, args.query, args.case_sensitive)
          <=> SlotPath(sl) \in RecordFiles(results)

(***************************************************************************)
(* C11.  During analyze_project_structure the accumulated method list      *)
(* never holds more than 100 entries: it is the first 100 of the method    *)
(* declarations of the files read, in the order read; it only grows at its *)
(* end and, once it holds 100, stays as it is.  The call returns without   *)
(* an error, and the returned methods are the first 50 accumulated.        *)
(***************************************************************************)
IsPrefix(s, t) == Len(s) <= Len(t) /\ SubSeq(t, 1, Len(s)) = s

\* the method declarations of the first k files read, in first-seen order
MethodsSeen(k) ==
    LET upto[i \in 0..k] ==
            IF i = 0 THEN <<>> ELSE upto[i - 1] \o AloneAnalysis(reads[i]).methods
    IN  upto[k]

C11_MethodCaps ==
    /\ [](op = "analyze" =>
            /\ Len(analysis.methods) <= 100
            /\ LET seen == MethodsSeen(Len(reads))
               IN  analysis.methods = SubSeq(seen, 1, IMin(100, Len(seen)))
            /\ Returned("analyze") =>
                  /\ "error" \notin DOMAIN ret
                  /\ Len(ret.methods) <= 50
                  /\ ret.methods =
                        SubSeq(analysis.methods, 1, IMin(50, Len(analysis.methods))))
    /\ [][(op = "analyze" /\ op' = "analyze") =>
            /\ IsPrefix(analysis.methods, analysis.methods')
            /\ Len(analysis.methods) = 100 => analysis.methods' = analysis.methods]_vars

\* more than 100 declarations were read: 100 are kept and 50 returned
C11_Witness ==
    /\ Returned("analyze")
    /\ Len(MethodsSeen(Len(reads))) > 100
    /\ Len(analysis.methods) = 100
    /\ Len(ret.methods) = 50

(***************************************************************************)
(* C12.  For max_lines >= 0 a successful get_file_content reports          *)
(* total_lines = the file's line count, showing_lines = min(total_lines,   *)
(* max_lines) and truncated = (total_lines > max_lines); with max_lines >= *)
(* total_lines it reports truncated = false and showing_lines = the line   *)
(* count.                                                                  *)
(***************************************************************************)
\* the lines of a text: one per newline, and one more for what follows the last
LineCount(content) ==
    Cardinality({i \in 1..Len(content) : content[i] = "\n"})
    + (IF content # <<>> /\ content[Len(content)] # "\n" THEN 1 ELSE 0)

C12_ShowingAndTruncated ==
    (Returned("get_file") /\ "error" \notin DOMAIN ret /\ args.max_lines >= 0)
    => LET total == LineCount(FileAt(Resolve(args.file_path)).content)
       IN  /\ ret.total_lines = total
           /\ ret.showing_lines = IMin(total, args.max_lines)
           /\ ret.truncated = (total > args.max_lines)
           /\ Len(ret.content) = ret.showing_lines
           /\ args.max_lines >= total
                => (ret.truncated = FALSE /\ ret.showing_lines = total)

\* a file of several lines was asked for with max_lines equal to its line count
C12_Witness ==
    /\ Returned("get_file") /\ "error" \notin DOMAIN ret
    /\ ret.total_lines >= 2
    /\ args.max_lines = ret.total_lines
    /\ ret.showing_lines = ret.total_lines
    /\ ret.truncated = FALSE

(***************************************************************************)
(* C13.  execute_code_search never lets an exception out: what it returns  *)
(* is a JSON text.  After a scan over a missing root, a get_file of a path *)
(* that names nothing, an unknown action, or a search or get_file with an  *)
(* empty query, the text has an `error` field; with an empty query no      *)
(* method of the searcher runs: no directory is walked and no file read.   *)
(***************************************************************************)
EmptyQuery == kwargs.action \in {"search", "get_file"} /\ kwargs.query = <<>>

ExecFails ==
    \/ kwargs.action = "scan" /\ ~fs.root_exists
    \/ kwargs.action = "get_file" /\ kwargs.query # <<>> /\ Resolve(kwargs.query) = 0
    \/ kwargs.action \notin {"scan", "analyze", "search", "get_file"}
    \/ EmptyQuery

C13_ExecuteNeverRaises ==
    kwargs # NoKwargs =>
      /\ payload # NoRet =>
            /\ "json" \in DOMAIN payload
            /\ ExecFails => "error" \in DOMAIN payload.json
      /\ EmptyQuery =>
            /\ payload # NoRet
            /\ pc = "done" /\ op = "none"
            /\ walk = <<>> /\ cur = 0 /\ reads = <<>>

\* the FileNotFoundError of scan_codebase came back as an error payload
C13_Witness ==
    /\ kwargs # NoKwargs /\ kwargs.action = "scan" /\ ~fs.root_exists
    /\ "raised" \in DOMAIN ret
    /\ payload # NoRet
    /\ "error" \in DOMAIN payload.json

(***************************************************************************)
(* C14.  scan_codebase walks the whole tree that is not pruned: in what it *)
(* returns every admitted file outside the pruned subtrees appears exactly *)
(* once, in the group of its lower-cased extension, and total_files is the *)
(* sum of the lengths of the groups.                                       *)
(***************************************************************************)
\* the places (group, index) at which a summary lists a path
PlacesOf(summary, path) ==
    {<<e, i>> \in UNION {{e} \X (1..Len(summary[e])) : e \in DOMAIN summary} :
        summary[e][i] = path}

RECURSIVE SumOfLengths(_, _)
SumOfLengths(summary, keys) ==
    IF keys = {} THEN 0
    ELSE LET e == CHOOSE k \in keys : TRUE
         IN  Len(summary[e]) + SumOfLengths(summary, keys \ {e})

C14_ScanListsEveryAdmittedFileOnce ==
    (Returned("scan") /\ fs.root_exists)
    => /\ \A sl \in Slots :
             (~SlotSkipped(sl) /\ Admissible(FileAt(sl)))
             => /\ Cardinality(PlacesOf(ret.summary, SlotPath(sl))) = 1
                /\ \E i \in 1..Len(FileAt(sl).name) :
                      LET e == lower(SubSeq(FileAt(sl).name, i, Len(FileAt(sl).name)))
                      IN  /\ e \in DOMAIN ret.summary
                          /\ e[1] = "."
                          /\ \A k \in 2..Len(e) : e[k] # "."
                          /\ SlotPath(sl) \in Range(ret.summary[e])
       /\ ret.total_files = SumOfLengths(ret.summary, DOMAIN ret.summary)

\* a scan has listed files in two groups, one of them with an upper-case suffix,
\* from the root and from the last directory of the walk
C14_Witness ==
    /\ Returned("scan") /\ fs.root_exists
    /\ Cardinality(DOMAIN ret.summary) >= 2
    /\ \E s1, s5 \in Slots :
          /\ DirOfSlot(s1) = Root /\ DirOfSlot(s5) = 3
          /\ suffix(FileAt(s1).name) # lower(suffix(FileAt(s1).name))
          /\ SlotPath(s1) \in Range(ret.summary[<<".", "c", "s">>])
          /\ SlotPath(s5) \in Range(ret.summary[<<".", "c", "s">>])

NoDuplicates(l) == \A i, j \in 1..Len(l) : l[i] = l[j] => i = j

C16_NoDuplicateNames ==
    Returned("analyze")
    => /\ NoDuplicates(ret.namespaces)
       /\ NoDuplicates(ret.classes)
       /\ NoDuplicates(ret.interfaces)

\* two files read declare the same class, which is returned once
C16_Witness ==
    /\ Returned("analyze")
    /\ \E s1, s2 \in Range(reads) :
          /\ s1 # s2
          /\ \E n \in AloneAnalysis(s1).classes \cap AloneAnalysis(s2).classes :
                Cardinality({i \in 1..Len(ret.classes) : ret.classes[i] = n}) = 1

(***************************************************************************)
(* C17.  In the content, class, method and variable modes the records of   *)
(* one file have 1-based line numbers (the record's match is the stripped  *)
(* line of that number) in strictly increasing order, so a line gives at   *)
(* most one record even when several patterns of the mode match it.        *)
(***************************************************************************)
LineModes == {"content", "class", "method", "variable"}

\* the lines of the file a record names
LinesOfRecord(r) ==
    split_lines(FileAt(CHOOSE sl \in Range(reads) : SlotPath(sl) = r.file).content)

C17_OneRecordPerLine ==
    (op = "search" /\ args.search_type \in LineModes)
    => \A i \in 1..Len(results) :
          /\ \E sl \in Range(reads) : SlotPath(sl) = results[i].file
          /\ results[i].line_number \in 1..Len(LinesOfRecord(results[i]))
          /\ results[i].match = strip(LinesOfRecord(results[i])[results[i].line_number])
          /\ \A j \in 1..Len(results) :
                (i < j /\ results[i].file = results[j].file)
                => results[i].line_number < results[j].line_number

\* a line that both patterns of the method mode match has one record
C17_Witness ==
    /\ op = "search" /\ args.search_type = "method"
    /\ \E i \in 1..Len(results) :
          LET line == LinesOfRecord(results[i])[results[i].line_number]
              pats == _get_search_patterns(args.query, "method")
          IN  /\ re_search(pats[1], line, ~args.case_sensitive)
              /\ re_search(pats[2], line, ~args.case_sensitive)
              /\ Cardinality({j \in 1..Len(results) :
                                /\ results[j].file = results[i].file
                                /\ results[j].line_number = results[i].line_number}) = 1

(***************************************************************************)
(* C18.  For a match at line i of a file of n lines (the lines being the   *)
(* pieces of the content between its newlines) and context_lines = c >= 0, *)
(* the record's context is lines max(1, i-c) .. min(n, i+c) in file order, *)
(* context_start_line is max(1, i-c), the context holds the matched line   *)
(* and has at most 2c+1 lines.                                             *)
(***************************************************************************)
C18_ContextWindow ==
    (op = "search" /\ args.search_type \in LineModes)
    => \A k \in 1..Len(results) :
          LET r     == results[k]
              lines == LinesOfRecord(r)
              n     == Len(lines)
              i     == r.line_number
              c     == args.context_lines
              lo    == IMax(1, i - c)
              hi    == IMin(n, i + c)
          IN  /\ Len(r.context) = hi - lo + 1
              /\ \A x \in lo..hi : r.context[x - lo + 1] = lines[x]
              /\ r.context_start_line = lo
              /\ r.context[i - r.context_start_line + 1] = lines[i]
              /\ Len(r.context) <= 2 * c + 1

\* with one line of context: a match on line 1, whose window is cut at the
\* top, and a match further down with the full window of three lines
C18_Witness ==
    /\ op = "search" /\ args.search_type \in LineModes
    /\ args.context_lines = 1
    /\ \E k1, k2 \in 1..Len(results) :
          /\ results[k1].line_number = 1
          /\ results[k1].context_start_line = 1
          /\ Len(results[k1].context) = 2
          /\ results[k2].line_number >= 2
          /\ results[k2].context_start_line = results[k2].line_number - 1
          /\ Len(results[k2].context) = 3

(***************************************************************************)
(* C19.  During search_code the accumulated records only grow at the end:  *)
(* every step of a call leaves the records so far as a prefix of the       *)
(* records after it, and the returned `results` is a prefix of the final   *)
(* accumulated sequence.                                                   *)
(***************************************************************************)
C19_ResultsAppendOnly ==
    /\ [][(op = "search" /\ op' = "search") => IsPrefix(results, results')]_vars
    /\ [](Returned("search") => IsPrefix(ret.results, results))

\* records of two files were accumulated and the returned list is a proper,
\* non-empty prefix of them
C19_Witness ==
    /\ Returned("search")
    /\ Cardinality(RecordFiles(results)) >= 2
    /\ Len(ret.results) >= 1
    /\ Len(ret.results) < Len(results)
    /\ IsPrefix(ret.results, results)

(***************************************************************************)
(* C20.  When the traversal of analyze_project_structure fails with an     *)
(* exception, the result returned to the caller has an `error` field.      *)
(***************************************************************************)
C20_TraversalFailureReported ==
    (Returned("analyze") /\ "error" \in DOMAIN analysis)
    => "error" \in DOMAIN ret

(***************************************************************************)
(* C21.  For max_results >= 1: whenever search_code opens a file, the      *)
(* number of records accumulated so far is below max_results; so when the  *)
(* accumulated count exceeds max_results, the excess comes from the last   *)
(* file read: without that file's records the count is below max_results.  *)
(***************************************************************************)
\* the records of the file the search opened last
LastFileMatches ==
    LET sl == reads[Len(reads)]
    IN  _search_in_file(FileAt(sl).content, DirOfSlot(sl), FileAt(sl).name,
                        args.query, args.search_type, args.case_sensitive,
                        args.context_lines)

C21_ExcessFromLastFile ==
    (op = "search" /\ args.max_results >= 1 /\ Len(results) > args.max_results)
    => /\ reads # <<>>
       /\ FileAt(reads[Len(reads)]).read_ok
       /\ Len(LastFileMatches) <= Len(results)
       /\ SubSeq(results, Len(results) - Len(LastFileMatches) + 1, Len(results))
             = LastFileMatches
       /\ Len(results) - Len(LastFileMatches) < args.max_results

C21_OpensBelowCap ==
    /\ []C21_ExcessFromLastFile
    /\ [][(op = "search" /\ args.max_results >= 1 /\ Len(reads') = Len(reads) + 1)
          => Len(results) < args.max_results]_vars

\* a file was opened with records already accumulated, and its records took
\* the count past max_results
C21_Witness ==
    /\ op = "search" /\ args.max_results >= 2
    /\ Len(reads) >= 2
    /\ Len(results) > args.max_results
    /\ Len(results) - Len(LastFileMatches) >= 1

(***************************************************************************)
(* C22.  As claimed: in a result of search_code, total_matches is the      *)
(* number of records of all the files read before the traversal stopped,   *)
(* `results` is the first min(total_matches, max_results) of them, and so  *)
(* total_matches >= len(results), with equality when total_matches <=      *)
(* max_results.  The first k records for a k below 1 are no records.       *)
(***************************************************************************)
\* the records of the files of a list of opened slots, in the order of the list
RECURSIVE RecordsOfReads(_)
RecordsOfReads(rd) ==
    IF rd = <<>> THEN <<>>
    ELSE LET sl == Head(rd)
             f  == FileAt(sl)
         IN  (IF f.read_ok
              THEN _search_in_file(f.content, DirOfSlot(sl), f.name, args.query,
                                   args.search_type, args.case_sensitive,
                                   args.context_lines)
              ELSE <<>>) \o RecordsOfReads(Tail(rd))

====
